---- MODULE Spec2Model ----
(***************************************************************************)
(* Voice appointment agent: the dialogue session controller                *)
(* (backend/agent/tools.py), the appointment store (backend/core/          *)
(* database.py) and the conversation tracker (backend/core/                *)
(* summary_service.py) as a state machine.                                 *)
(*                                                                         *)
(* A tool body is an asyncio coroutine: it runs without interleaving from  *)
(* one store call to the next.  Each action below is one such segment: the *)
(* store call the coroutine is suspended on, together with the code that   *)
(* follows it up to the next store call or the return.                     *)
(***************************************************************************)
EXTENDS Integers, Sequences, FiniteSets, TLC

VARIABLES
    users,      \* store collection db.users: sequence of documents, _id = index
    appts,      \* store collection db.appointments, _id = index
    summaries,  \* store collection db.conversation_summaries
    session,    \* per session: UserData fields and DatabaseManager.connected
    tracker,    \* per session: its ConversationTracker
    frame,      \* per task: the tool invocation in flight (arguments, locals, position)
    budget,     \* tool invocations that may still be started
    flaky,      \* TRUE: store calls may fail
    clock,      \* logical time: tool invocations started so far
    serial,     \* TRUE: tool calls are dispatched one at a time
    written,    \* history: per session, the summary records its agent has inserted
    ai_summary_task  \* per task: the summarizer task generate_frontend_summary created

vars == <<users, appts, summaries, session, tracker, frame, budget, flaky, clock, serial,
          written, ai_summary_task>>

\* ---------------------------------------------------------------- bounds
MaxCalls == 3
MaxSerialCalls == 4
MaxRaceCalls == 4

Sessions == {1, 2}
Tasks == {1, 2}

\* Python's None, for string-valued fields; ids use 0
None == "None"

\* ---------------------------------------------------------------- inputs
\* Raw tool arguments as the LLM may supply them.
PhoneArgs == {"555-0101", "n/a"}
NameArgs == {"Ana", "  "}
PrefArgs == {"mornings", " "}
DateArgs == {"2026-02-08", "2026-02-09", "tomorrow", "someday", ""}
TimeArgs == {"15:00", "3 PM", "09:00", ""}
NewPurposeArgs == {"", "checkup"}
DefaultPurpose == "General consultation"

\* ---------------------------------------------------------------- Slot Calendar
MOCK_CALENDAR_2026_FEB ==
    [d \in {"2026-02-05", "2026-02-06", "2026-02-07", "2026-02-08", "2026-02-09",
            "2026-02-10", "2026-02-11", "2026-02-12", "2026-02-13", "2026-02-14",
            "2026-02-15", "2026-02-16", "2026-02-17", "2026-02-18", "2026-02-19",
            "2026-02-20"} |->
        CASE d = "2026-02-05" -> <<"12:00", "15:00", "17:00", "18:00", "19:00">>
          [] d = "2026-02-06" -> <<"12:00", "15:00", "17:00", "18:00">>
          [] d = "2026-02-07" -> <<"15:00", "17:00", "18:00", "19:00">>
          [] d = "2026-02-08" -> <<"12:00", "15:00", "19:00">>
          [] d = "2026-02-09" -> <<>>
          [] d = "2026-02-10" -> <<"12:00", "15:00", "17:00", "18:00", "19:00">>
          [] d = "2026-02-11" -> <<"12:00", "15:00", "17:00", "18:00", "19:00">>
          [] d = "2026-02-12" -> <<"12:00", "15:00", "17:00", "18:00">>
          [] d = "2026-02-13" -> <<"15:00", "17:00", "19:00">>
          [] d = "2026-02-14" -> <<"12:00", "18:00", "19:00">>
          [] d = "2026-02-15" -> <<>>
          [] d = "2026-02-16" -> <<"12:00", "15:00", "17:00", "18:00", "19:00">>
          [] d = "2026-02-17" -> <<"12:00", "15:00", "17:00", "18:00", "19:00">>
          [] d = "2026-02-18" -> <<"12:00", "15:00", "17:00", "18:00", "19:00">>
          [] d = "2026-02-19" -> <<"12:00", "15:00", "18:00">>
          [] d = "2026-02-20" -> <<"15:00", "17:00", "18:00", "19:00">>]

DEFAULT_SLOTS == <<"12:00", "15:00", "17:00", "18:00", "19:00">>

SeqToSet(q) == {q[i] : i \in DOMAIN q}

\* a calendar without override entries
DefaultSlotsForDate(date) == DEFAULT_SLOTS

\* _get_available_slots_for_date: MOCK_CALENDAR_2026_FEB.get(date, DEFAULT_SLOTS)
GetAvailableSlotsForDate(date) ==
    IF date \in DOMAIN MOCK_CALENDAR_2026_FEB
    THEN MOCK_CALENDAR_2026_FEB[date]
    ELSE DEFAULT_SLOTS

\* a calendar that allows every time
AnySlotAllowed(date, time) == TRUE

IsAllowedSlot(date, time) == time \in SeqToSet(GetAvailableSlotsForDate(date))

\* ---------------------------------------------------------------- parsing
\* The wall clock is fixed at 2026-02-28, so "tomorrow" is a date without a calendar entry.
TomorrowDate == "2026-03-01"

\* Strings of the form %Y-%m-%d / %H:%M among the modelled inputs.
IsoDates == DOMAIN MOCK_CALENDAR_2026_FEB \cup {TomorrowDate}
IsoTimes == {"09:00", "12:00", "15:00", "17:00", "18:00", "19:00"}

\* _normalize_date: dateparser.parse(...).date().isoformat(), None when empty or unparsable
NormalizeDate(date_str) ==
    CASE date_str = "" -> None
      [] date_str = "tomorrow" -> TomorrowDate
      [] date_str \in IsoDates -> date_str
      [] OTHER -> None

\* _normalize_time: dateparser.parse(...).strftime("%H:%M"), None when empty or unparsable
NormalizeTime(time_str) ==
    CASE time_str = "" -> None
      [] time_str = "3 PM" -> "15:00"
      [] time_str \in IsoTimes -> time_str
      [] OTHER -> None

\* datetime.strptime(f"{date} {time}", "%Y-%m-%d %H:%M") succeeds (it raises otherwise)
StrptimeOk(date, time) == date \in IsoDates /\ time \in IsoTimes

\* the combined instant strptime returns
Instant(date, time) == <<date, time>>

\* "".join(filter(str.isdigit, phone_number))
CleanPhone(phone_number) ==
    CASE phone_number = "555-0101" -> "5550101"
      [] phone_number = "n/a" -> ""
      [] OTHER -> phone_number

\* str.strip()
Strip(s) == IF s \in {" ", "  "} THEN "" ELSE s

\* a truthiness that takes every string for a value
AnyString(s) == TRUE

\* Python truthiness of an Optional[str]
Truthy(s) == s \notin {None, ""}

\* ---------------------------------------------------------------- Appointment Store
\* get_user_by_phone: the _id of the user with that phone, 0 when absent
GetUserByPhone(phone) ==
    IF \E i \in DOMAIN users : users[i].phone = phone
    THEN CHOOSE i \in DOMAIN users : users[i].phone = phone
    ELSE 0

\* a slot listing that forgets the status filter: every appointment of the date
GetSlotsAnyStatus(date) ==
    {<<appts[i].date, appts[i].time>> : i \in {j \in DOMAIN appts : appts[j].date = date}}

\* get_booked_slots: the "date time" keys of the non-cancelled appointments of the date
GetBookedSlots(date) ==
    {<<appts[i].date, appts[i].time>> :
        i \in {j \in DOMAIN appts : appts[j].date = date /\ appts[j].status # "cancelled"}}

\* a lookup by id alone, whoever owns the appointment
GetAppointmentAnyOwner(appointment_id, user_id) ==
    IF appointment_id \in DOMAIN appts THEN appointment_id ELSE 0

\* get_appointment_by_id: scoped by owner, 0 when absent
GetAppointmentById(appointment_id, user_id) ==
    IF appointment_id \in DOMAIN appts /\ appts[appointment_id].user_id = user_id
    THEN appointment_id
    ELSE 0

DatetimeMatches(user_id, date, time) ==
    {i \in DOMAIN appts :
        /\ appts[i].user_id = user_id
        /\ appts[i].date = date
        /\ appts[i].time = time
        /\ appts[i].status # "cancelled"}

\* get_appointment_by_datetime: find_one in natural order, cancelled ones excluded
GetAppointmentByDatetime(user_id, date, time) ==
    IF DatetimeMatches(user_id, date, time) = {}
    THEN 0
    ELSE CHOOSE i \in DatetimeMatches(user_id, date, time) :
            \A j \in DatetimeMatches(user_id, date, time) : i <= j

\* get_user_appointments: every appointment of the owner, whatever its status
GetUserAppointments(user_id) == {i \in DOMAIN appts : appts[i].user_id = user_id}

\* ---------------------------------------------------------------- initial state
NoArgs == [phone |-> "", name |-> "", pref |-> "", date |-> "", time |-> "",
           purpose |-> "", id |-> 0]

IdleFrame ==
    [pc |-> "idle", tool |-> "", sess |-> 0, arg |-> NoArgs,
     nd |-> None, nt |-> None, target |-> 0,
     events |-> <<>>, said |-> 0, outcome |-> "", raised |-> FALSE,
     readSlots |-> FALSE, offered |-> <<>>, data |-> <<>>]

\* UserData() as VoiceAppointmentAgent.__init__ builds it for user_context = None
NewUserData ==
    [user_id |-> 0, user_phone |-> None, user_name |-> None, identified |-> FALSE,
     conversation_id |-> None, pending_appointment |-> <<>>, connected |-> FALSE]

\* ConversationTracker()
NewTracker ==
    [conversation_id |-> None, user_id |-> 0, user_phone |-> None, user_name |-> None,
     user_preferences |-> <<>>, events |-> <<>>,
     appointments_booked |-> <<>>, appointments_viewed |-> <<>>,
     appointments_modified |-> <<>>, appointments_cancelled |-> <<>>,
     concerns_raised |-> <<>>, end_time |-> 0]

\* no summarizer task
NoTask == [state |-> "none", response |-> "", elapsed |-> "", result |-> <<>>]

InitStore ==
    /\ users = <<>>
    /\ appts = <<>>
    /\ summaries = <<>>
    /\ session = [s \in Sessions |-> NewUserData]
    /\ tracker = [s \in Sessions |-> NewTracker]
    /\ frame = [t \in Tasks |-> IdleFrame]
    /\ clock = 0
    /\ written = [s \in Sessions |-> 0]
    /\ ai_summary_task = [t \in Tasks |-> NoTask]

\* concurrent sessions over a store that may fail
Init ==
    /\ InitStore
    /\ budget = MaxCalls
    /\ flaky = TRUE
    /\ serial = FALSE

\* concurrent sessions over a store that does not fail
InitRace ==
    /\ InitStore
    /\ budget = MaxRaceCalls
    /\ flaky = FALSE
    /\ serial = FALSE

\* serial dispatch, no store failure
InitSerial ==
    /\ InitStore
    /\ budget = MaxSerialCalls
    /\ flaky = FALSE
    /\ serial = TRUE

\* ---------------------------------------------------------------- tool plumbing
\* the call frame of a tool invocation that has just been entered
Begin(s, tool, arg) == [IdleFrame EXCEPT !.pc = "run", !.tool = tool, !.sess = s, !.arg = arg]

\* _publish_data_event: one payload of the given type on the notification channel
Emit(f, type) == [f EXCEPT !.events = Append(@, type)]

\* _send_tool_call_event
SendToolCallEvent(f) == Emit(f, "tool_call")

\* _say_response
SayResponse(f) == [f EXCEPT !.said = @ + 1]

\* return <value>: the coroutine is over, its arguments and working data are gone
ReturnValue(f, outcome) ==
    [f EXCEPT !.pc = "done", !.outcome = outcome, !.arg = NoArgs, !.data = <<>>]

\* suspend on the next store call
Await(f, label) == [f EXCEPT !.pc = label]

\* an exception that leaves the tool body
Propagate(f) ==
    [f EXCEPT !.pc = "done", !.outcome = "raised", !.raised = TRUE, !.arg = NoArgs,
              !.data = <<>>]

\* except Exception as e: logger.error(...); await self._say_response(...); return ...
HandleException(f) == ReturnValue(SayResponse(f), "error")

\* What a store call may do: succeed, fail inside the driver call ("op": the
\* DatabaseManager method's own try block), or fail in ensure_connected ("conn":
\* raised outside that try block, possible only while not yet connected).
StoreOutcomes(s) ==
    {"ok"} \cup (IF flaky
                 THEN {"op"} \cup (IF session[s].connected THEN {} ELSE {"conn"})
                 ELSE {})

\* ensure_connected / connect: connected once the ping went through
Connected(s, o) == [session[s] EXCEPT !.connected = (@ \/ o # "conn")]

StartGuard(t) ==
    /\ frame[t].pc = "idle"
    /\ budget > 0
    \* tasks are anonymous: the lowest free one takes the call
    /\ \A u \in Tasks : u < t => frame[u].pc # "idle"
    /\ serial => \A u \in Tasks : frame[u].pc = "idle"

Started ==
    /\ budget' = budget - 1
    /\ clock' = clock + 1

\* a tracker that logs nothing
NoEvent(tr, event_type) == tr

\* a tracker that keeps only its latest event
LatestEventOnly(tr, event_type) == [tr EXCEPT !.events = <<event_type>>]

\* ConversationTracker.add_event
AddEvent(tr, event_type) == [tr EXCEPT !.events = Append(@, event_type)]

\* ---------------------------------------------------------------- identify_user
\* tools.py 344-349 and 351-355: the already-identified short circuit, else the lookup
StartIdentify(t) ==
    /\ StartGuard(t)
    /\ Started
    /\ \E s \in Sessions, phone \in PhoneArgs :
        LET f == Begin(s, "identify_user", [NoArgs EXCEPT !.phone = phone])
        IN  frame' = [frame EXCEPT ![t] =
                IF session[s].identified /\ Truthy(session[s].user_phone)
                THEN ReturnValue(f, "already_identified")
                ELSE Await(f, "id_lookup")]
    /\ UNCHANGED <<users, appts, summaries, session, tracker, flaky, serial, written,
                   ai_summary_task>>

\* the user fields without the identified mark
Remembered(sd, u, clean_phone, name) ==
    [sd EXCEPT !.user_id = u, !.user_phone = clean_phone, !.user_name = name]

\* the session and tracker fields both branches of identify_user set
Identified(sd, u, clean_phone, name) ==
    [sd EXCEPT !.user_id = u, !.user_phone = clean_phone, !.user_name = name,
               !.identified = TRUE]

TrackIdentified(tr, u, clean_phone, name) ==
    AddEvent([tr EXCEPT !.user_id = u, !.user_phone = clean_phone, !.user_name = name],
             "user_identified")

\* tools.py 355-369 (and 392-408 on a hit): db.get_user_by_phone
IdLookup(t) ==
    /\ frame[t].pc = "id_lookup"
    /\ \E o \in StoreOutcomes(frame[t].sess) :
        LET s == frame[t].sess
            f == frame[t]
            clean_phone == CleanPhone(f.arg.phone)
            \* get_user_by_phone swallows a failed find_one and returns None
            user == IF o = "ok" THEN GetUserByPhone(clean_phone) ELSE 0
            name == IF Truthy(users[user].name) THEN users[user].name ELSE "User"
        IN  /\ IF o = "conn"
               THEN /\ frame' = [frame EXCEPT ![t] = HandleException(f)]
                    /\ session' = [session EXCEPT ![s] = Connected(s, o)]
                    /\ UNCHANGED tracker
               ELSE IF user # 0
               THEN /\ session' = [session EXCEPT ![s] =
                            Identified(Connected(s, o), user, clean_phone, name)]
                    /\ tracker' = [tracker EXCEPT ![s] =
                            TrackIdentified(@, user, clean_phone, name)]
                    /\ frame' = [frame EXCEPT ![t] =
                            ReturnValue(SendToolCallEvent(f), "identified")]
               ELSE /\ session' = [session EXCEPT ![s] = Connected(s, o)]
                    /\ frame' = [frame EXCEPT ![t] = Await(f, "id_create")]
                    /\ UNCHANGED tracker
    /\ UNCHANGED <<users, appts, summaries, budget, flaky, clock, serial, written,
                   ai_summary_task>>

\* an insert that no unique index on phone guards
InsertUserOk(o, phone) == o = "ok"

\* create_user: insert_one under the unique index on phone; any failure is re-raised
CreateUserOk(o, phone) == o = "ok" /\ GetUserByPhone(phone) = 0

\* tools.py 371-408: db.create_user
IdCreate(t) ==
    /\ frame[t].pc = "id_create"
    /\ \E o \in StoreOutcomes(frame[t].sess) :
        LET s == frame[t].sess
            f == frame[t]
            clean_phone == CleanPhone(f.arg.phone)
            user_id == Len(users) + 1
        IN  /\ IF CreateUserOk(o, clean_phone)
               THEN /\ users' = Append(users, [phone |-> clean_phone, name |-> None])
                    /\ session' = [session EXCEPT ![s] =
                            Identified(Connected(s, o), user_id, clean_phone, "User")]
                    /\ tracker' = [tracker EXCEPT ![s] =
                            TrackIdentified(@, user_id, clean_phone, "User")]
                    /\ frame' = [frame EXCEPT ![t] =
                            ReturnValue(SendToolCallEvent(f), "identified")]
               ELSE /\ frame' = [frame EXCEPT ![t] = HandleException(f)]
                    /\ session' = [session EXCEPT ![s] = Connected(s, o)]
                    /\ UNCHANGED <<users, tracker>>
    /\ UNCHANGED <<appts, summaries, budget, flaky, clock, serial, written, ai_summary_task>>

\* ---------------------------------------------------------------- set_user_name
\* tools.py 425-434
StartSetUserName(t) ==
    /\ StartGuard(t)
    /\ Started
    /\ \E s \in Sessions, name \in NameArgs :
        LET f == Begin(s, "set_user_name", [NoArgs EXCEPT !.name = name])
            clean_name == Strip(name)
        IN  IF clean_name = ""
            THEN /\ frame' = [frame EXCEPT ![t] = ReturnValue(SayResponse(f), "invalid")]
                 /\ UNCHANGED <<session, tracker>>
            ELSE IF session[s].user_id # 0
            THEN /\ session' = [session EXCEPT ![s].user_name = clean_name]
                 /\ frame' = [frame EXCEPT ![t] = Await(f, "name_update")]
                 /\ UNCHANGED tracker
            ELSE /\ session' = [session EXCEPT ![s].user_name = clean_name]
                 /\ tracker' = [tracker EXCEPT ![s] =
                        AddEvent([@ EXCEPT !.user_name = clean_name], "name_saved")]
                 /\ frame' = [frame EXCEPT ![t] =
                        ReturnValue(SendToolCallEvent(f), "name_set")]
    /\ UNCHANGED <<users, appts, summaries, flaky, serial, written, ai_summary_task>>

\* tools.py 434-448: db.update_user (a failed update_one is swallowed: returns False)
NameUpdate(t) ==
    /\ frame[t].pc = "name_update"
    /\ \E o \in StoreOutcomes(frame[t].sess) :
        LET s == frame[t].sess
            f == frame[t]
            clean_name == Strip(f.arg.name)
            user_id == session[s].user_id
        IN  /\ session' = [session EXCEPT ![s] = Connected(s, o)]
            /\ IF o = "conn"
               THEN /\ frame' = [frame EXCEPT ![t] = HandleException(f)]
                    /\ UNCHANGED <<users, tracker>>
               ELSE /\ users' = IF o = "ok" /\ user_id \in DOMAIN users
                                THEN [users EXCEPT ![user_id].name = clean_name]
                                ELSE users
                    /\ tracker' = [tracker EXCEPT ![s] =
                            AddEvent([@ EXCEPT !.user_name = clean_name], "name_saved")]
                    /\ frame' = [frame EXCEPT ![t] =
                            ReturnValue(SendToolCallEvent(f), "name_set")]
    /\ UNCHANGED <<appts, summaries, budget, flaky, clock, serial, written, ai_summary_task>>

\* ---------------------------------------------------------------- add_user_preference
\* tools.py 465-490.  UserData has no attribute user_preferences (its list is
\* `preferences`), so line 472 raises AttributeError, which the except block turns
\* into the apology.
AddUserPreference(t) ==
    /\ StartGuard(t)
    /\ Started
    /\ \E s \in Sessions, pref \in PrefArgs :
        LET f == Begin(s, "add_user_preference", [NoArgs EXCEPT !.pref = pref])
        IN  frame' = [frame EXCEPT ![t] =
                IF Strip(pref) = ""
                THEN ReturnValue(SayResponse(f), "invalid")
                ELSE HandleException(f)]
    /\ UNCHANGED <<users, appts, summaries, session, tracker, flaky, serial, written,
                   ai_summary_task>>

\* ---------------------------------------------------------------- fetch_slots
\* _format_time_ampm: strptime(time, "%H:%M").strftime("%-I %p")
FormatTimeAmPm(time_24h) ==
    CASE time_24h = "09:00" -> "9 AM"
      [] time_24h = "12:00" -> "12 PM"
      [] time_24h = "15:00" -> "3 PM"
      [] time_24h = "17:00" -> "5 PM"
      [] time_24h = "18:00" -> "6 PM"
      [] time_24h = "19:00" -> "7 PM"
      [] OTHER -> time_24h

\* _allowed_slots_for_date: the calendar of `date or tomorrow`
AllowedSlotsForDate(date) ==
    GetAvailableSlotsForDate(IF date = None THEN TomorrowDate ELSE date)

\* a listing that disregards the booked slots
AllowedSlotsOnly(date, booked_slots) == AllowedSlotsForDate(date)

\* the allowed slots whose "date time" key is not booked, in calendar order
AvailableSlots(date, booked_slots) ==
    LET IsFree(time) == <<date, time>> \notin booked_slots
    IN  SelectSeq(AllowedSlotsForDate(date), IsFree)

\* tools.py 501-505
StartFetchSlots(t) ==
    /\ StartGuard(t)
    /\ Started
    /\ \E s \in Sessions, date \in DateArgs :
        LET f == Begin(s, "fetch_slots", [NoArgs EXCEPT !.date = date])
            normalized_date == IF date # "" THEN NormalizeDate(date) ELSE TomorrowDate
        IN  frame' = [frame EXCEPT ![t] = Await([f EXCEPT !.nd = normalized_date], "fetch_get")]
    /\ UNCHANGED <<users, appts, summaries, session, tracker, flaky, serial, written,
                   ai_summary_task>>

\* tools.py 507-534: db.get_booked_slots (a failed find is swallowed: returns [])
FetchGet(t) ==
    /\ frame[t].pc = "fetch_get"
    /\ \E o \in StoreOutcomes(frame[t].sess) :
        LET s == frame[t].sess
            f == [frame[t] EXCEPT !.readSlots = TRUE]
            booked_slots == IF o = "ok" THEN GetBookedSlots(f.nd) ELSE {}
            available_slots == AvailableSlots(f.nd, booked_slots)
        IN  /\ session' = [session EXCEPT ![s] = Connected(s, o)]
            /\ frame' = [frame EXCEPT ![t] =
                    IF o = "conn" \/ f.nd = None   \* strptime(None, ...) raises TypeError
                    THEN HandleException(f)
                    ELSE ReturnValue(SendToolCallEvent([f EXCEPT !.offered = available_slots]),
                            IF available_slots = <<>> THEN "fully_booked" ELSE "slots")]
    /\ UNCHANGED <<users, appts, summaries, tracker, budget, flaky, clock, serial, written,
                   ai_summary_task>>

\* ---------------------------------------------------------------- book_appointment
\* ConversationTracker.track_appointment_booked
TrackAppointmentBooked(tr, appointment) ==
    AddEvent([tr EXCEPT !.appointments_booked = Append(@, appointment)], "appointment_booked")

\* tools.py 553-601: identification, normalisation and the calendar check
StartBookAppointment(t) ==
    /\ StartGuard(t)
    /\ Started
    /\ \E s \in Sessions, date \in DateArgs, time \in TimeArgs :
        LET f == Begin(s, "book_appointment",
                       [NoArgs EXCEPT !.date = date, !.time = time, !.purpose = DefaultPurpose])
            normalized_date == IF date # "" THEN NormalizeDate(date) ELSE TomorrowDate
            normalized_time == NormalizeTime(time)
            g == [f EXCEPT !.nd = normalized_date, !.nt = normalized_time]
        IN  frame' = [frame EXCEPT ![t] =
                IF session[s].user_id = 0
                THEN ReturnValue(SayResponse(f), "need_identify")
                ELSE IF normalized_date = None \/ normalized_time = None
                THEN ReturnValue(SayResponse(SendToolCallEvent(f)), "invalid")
                ELSE IF ~IsAllowedSlot(normalized_date, normalized_time)
                THEN ReturnValue(SayResponse(SendToolCallEvent(g)), "not_allowed")
                ELSE Await(g, "book_slots")]
    /\ UNCHANGED <<users, appts, summaries, session, tracker, flaky, serial, written,
                   ai_summary_task>>

\* the appointment_data document of tools.py 644-655
AppointmentData(sd, date, time, purpose) ==
    [user_id |-> sd.user_id, contact_number |-> sd.user_phone, date |-> date, time |-> time,
     datetime |-> Instant(date, time), purpose |-> purpose, status |-> "confirmed",
     updated |-> FALSE]

\* a conflict test that finds no slot taken
NoConflict(date, time, booked_slots) == FALSE

\* the slot-conflict test of tools.py 607
SlotTaken(date, time, booked_slots) == <<date, time>> \in booked_slots

\* tools.py 603-655: db.get_booked_slots, the conflict check, the document to insert
BookSlots(t) ==
    /\ frame[t].pc = "book_slots"
    /\ \E o \in StoreOutcomes(frame[t].sess) :
        LET s == frame[t].sess
            f == [frame[t] EXCEPT !.readSlots = TRUE]
            booked_slots == IF o = "ok" THEN GetBookedSlots(f.nd) ELSE {}
        IN  /\ session' = [session EXCEPT ![s] = Connected(s, o)]
            /\ frame' = [frame EXCEPT ![t] =
                    IF o = "conn"
                    THEN HandleException(f)
                    ELSE IF SlotTaken(f.nd, f.nt, booked_slots)
                    THEN ReturnValue(SayResponse(SendToolCallEvent(
                            [f EXCEPT !.offered = AvailableSlots(f.nd, booked_slots)])), "taken")
                    ELSE Await([f EXCEPT !.data =
                            AppointmentData(session[s], f.nd, f.nt, f.arg.purpose)],
                            "book_create")]
    /\ UNCHANGED <<users, appts, summaries, tracker, budget, flaky, clock, serial, written,
                   ai_summary_task>>

\* tools.py 657-693: db.create_appointment (a failed insert_one is re-raised)
BookCreate(t) ==
    /\ frame[t].pc = "book_create"
    /\ \E o \in StoreOutcomes(frame[t].sess) :
        LET s == frame[t].sess
            f == frame[t]
            appointment_id == Len(appts) + 1
        IN  /\ IF o = "ok"
               THEN /\ appts' = Append(appts, f.data)
                    /\ session' = [session EXCEPT ![s] =
                            [Connected(s, o) EXCEPT !.pending_appointment =
                                [id |-> appointment_id, date |-> f.nd, time |-> f.nt,
                                 purpose |-> f.arg.purpose]]]
                    /\ tracker' = [tracker EXCEPT ![s] = TrackAppointmentBooked(@,
                            [date |-> f.nd, time |-> FormatTimeAmPm(f.nt),
                             purpose |-> f.arg.purpose])]
                    /\ frame' = [frame EXCEPT ![t] =
                            ReturnValue(SendToolCallEvent([f EXCEPT !.target = appointment_id]),
                                        "booked")]
               ELSE /\ frame' = [frame EXCEPT ![t] = HandleException(f)]
                    /\ session' = [session EXCEPT ![s] = Connected(s, o)]
                    /\ UNCHANGED <<appts, tracker>>
    /\ UNCHANGED <<users, summaries, budget, flaky, clock, serial, written, ai_summary_task>>

\* ---------------------------------------------------------------- retrieve_appointments
\* apt["datetime"] > now, the wall clock standing at 2026-02-28
AfterNow(instant) == instant[1] = TomorrowDate

RECURSIVE AscendingIds(_)
\* the ids of a set as a sequence, lowest first
AscendingIds(ids) ==
    IF ids = {}
    THEN <<>>
    ELSE LET m == CHOOSE i \in ids : \A j \in ids : i <= j
         IN  <<m>> \o AscendingIds(ids \ {m})

\* ConversationTracker.track_appointment_viewed
TrackAppointmentViewed(tr, appointments) ==
    AddEvent([tr EXCEPT !.appointments_viewed = @ \o appointments], "appointments_viewed")

\* tools.py 706-713
StartRetrieveAppointments(t) ==
    /\ StartGuard(t)
    /\ Started
    /\ \E s \in Sessions :
        LET f == Begin(s, "retrieve_appointments", NoArgs)
        IN  frame' = [frame EXCEPT ![t] =
                IF session[s].user_id = 0
                THEN ReturnValue(SayResponse(f), "need_identify")
                ELSE Await([f EXCEPT !.target = session[s].user_id], "ret_list")]
    /\ UNCHANGED <<users, appts, summaries, session, tracker, flaky, serial, written,
                   ai_summary_task>>

\* tools.py 713-758: db.get_user_appointments (a failed find is swallowed: returns [])
RetList(t) ==
    /\ frame[t].pc = "ret_list"
    /\ \E o \in StoreOutcomes(frame[t].sess) :
        LET s == frame[t].sess
            f == frame[t]
            appointments == IF o = "ok" THEN GetUserAppointments(f.target) ELSE {}
            upcoming == {i \in appointments :
                            AfterNow(appts[i].datetime) /\ appts[i].status # "cancelled"}
        IN  /\ session' = [session EXCEPT ![s] = Connected(s, o)]
            /\ IF o = "conn"
               THEN /\ frame' = [frame EXCEPT ![t] = HandleException(f)]
                    /\ UNCHANGED tracker
               ELSE IF appointments = {}
               THEN /\ frame' = [frame EXCEPT ![t] =
                            ReturnValue(SayResponse(SendToolCallEvent(f)), "no_appointments")]
                    /\ UNCHANGED tracker
               ELSE /\ tracker' = [tracker EXCEPT ![s] =
                            TrackAppointmentViewed(@, AscendingIds(upcoming))]
                    /\ frame' = [frame EXCEPT ![t] =
                            ReturnValue(SendToolCallEvent(f), "listed")]
    /\ UNCHANGED <<users, appts, summaries, budget, flaky, clock, serial, written,
                   ai_summary_task>>

\* ---------------------------------------------------------------- cancel_appointment
\* ConversationTracker.track_appointment_cancelled
TrackAppointmentCancelled(tr, appointment_id) ==
    AddEvent([tr EXCEPT !.appointments_cancelled = Append(@, appointment_id)],
             "appointment_cancelled")

\* the appointment ids a caller may name: those in the store and one that is not
IdArgs == 1 .. (Len(appts) + 1)

\* how a cancellation target may be named: by id, by date and time, or not at all
CancelArgs ==
    {[NoArgs EXCEPT !.id = i] : i \in IdArgs}
    \cup {[NoArgs EXCEPT !.date = d, !.time = tm] : d \in DateArgs, tm \in TimeArgs}

\* tools.py 777-797
StartCancelAppointment(t) ==
    /\ StartGuard(t)
    /\ Started
    /\ \E s \in Sessions, arg \in CancelArgs :
        LET f == Begin(s, "cancel_appointment", arg)
        IN  frame' = [frame EXCEPT ![t] =
                IF session[s].user_id = 0
                THEN ReturnValue(SayResponse(f), "need_identify")
                ELSE IF arg.id # 0 \/ (Truthy(arg.date) /\ Truthy(arg.time))
                THEN Await(f, "can_get")
                ELSE ReturnValue(SayResponse(f), "clarify")]
    /\ UNCHANGED <<users, appts, summaries, session, tracker, flaky, serial, written,
                   ai_summary_task>>

\* a status test that lets every appointment through
NeverCancelled(appointment) == FALSE

\* tools.py 811: if appointment["status"] == "cancelled"
AlreadyCancelled(appointment) == appts[appointment].status = "cancelled"

\* tools.py 786-819: db.get_appointment_by_id / db.get_appointment_by_datetime
\* (a failed find_one is swallowed: returns None)
CanGet(t) ==
    /\ frame[t].pc = "can_get"
    /\ \E o \in StoreOutcomes(frame[t].sess) :
        LET s == frame[t].sess
            f == frame[t]
            appointment ==
                IF o # "ok" THEN 0
                ELSE IF f.arg.id # 0
                THEN GetAppointmentById(f.arg.id, session[s].user_id)
                ELSE GetAppointmentByDatetime(session[s].user_id, f.arg.date, f.arg.time)
        IN  /\ session' = [session EXCEPT ![s] = Connected(s, o)]
            /\ frame' = [frame EXCEPT ![t] =
                    IF o = "conn"
                    THEN HandleException(f)
                    ELSE IF appointment = 0
                    THEN ReturnValue(SayResponse(SendToolCallEvent(f)), "not_found")
                    ELSE IF AlreadyCancelled(appointment)
                    THEN ReturnValue(SayResponse(SendToolCallEvent(f)), "already_cancelled")
                    ELSE Await([f EXCEPT !.target = appointment], "can_update")]
    /\ UNCHANGED <<users, appts, summaries, tracker, budget, flaky, clock, serial, written,
                   ai_summary_task>>

\* update_appointment_status: $set status and updated_at (a failed update_one is swallowed)
UpdateAppointmentStatus(o, appointment_id, status) ==
    IF o = "ok" /\ appointment_id \in DOMAIN appts
    THEN [appts EXCEPT ![appointment_id].status = status, ![appointment_id].updated = TRUE]
    ELSE appts

\* tools.py 821-838: db.update_appointment_status; its result is not looked at
CanUpdate(t) ==
    /\ frame[t].pc = "can_update"
    /\ \E o \in StoreOutcomes(frame[t].sess) :
        LET s == frame[t].sess
            f == frame[t]
        IN  /\ session' = [session EXCEPT ![s] = Connected(s, o)]
            /\ IF o = "conn"
               THEN /\ frame' = [frame EXCEPT ![t] = HandleException(f)]
                    /\ UNCHANGED <<appts, tracker>>
               ELSE /\ appts' = UpdateAppointmentStatus(o, f.target, "cancelled")
                    /\ tracker' = [tracker EXCEPT ![s] = TrackAppointmentCancelled(@, f.target)]
                    /\ frame' = [frame EXCEPT ![t] =
                            ReturnValue(SendToolCallEvent(f), "cancelled")]
    /\ UNCHANGED <<users, summaries, budget, flaky, clock, serial, written, ai_summary_task>>

\* ---------------------------------------------------------------- modify_appointment
\* ConversationTracker.track_appointment_modified
TrackAppointmentModified(tr, appointment_id, changes) ==
    AddEvent([tr EXCEPT !.appointments_modified =
                Append(@, [appointment_id |-> appointment_id, changes |-> changes])],
             "appointment_modified")

\* tools.py 865-874.  new_date, new_time and new_purpose are drawn where the body first
\* reads them (line 900), in ModGet.
StartModifyAppointment(t) ==
    /\ StartGuard(t)
    /\ Started
    /\ \E s \in Sessions, id \in IdArgs :
        LET f == Begin(s, "modify_appointment", [NoArgs EXCEPT !.id = id])
        IN  frame' = [frame EXCEPT ![t] =
                IF session[s].user_id = 0
                THEN ReturnValue(SayResponse(f), "need_identify")
                ELSE Await(f, "mod_get")]
    /\ UNCHANGED <<users, appts, summaries, session, tracker, flaky, serial, written,
                   ai_summary_task>>

\* tools.py 900: if new_date and new_time
HasNewSlot(arg) == Truthy(arg.date) /\ Truthy(arg.time)

\* tools.py 872-900 and 926-932: db.get_appointment_by_id, then the branch on the
\* fields supplied
ModGet(t) ==
    /\ frame[t].pc = "mod_get"
    /\ \E o \in StoreOutcomes(frame[t].sess), new_date \in DateArgs, new_time \in TimeArgs,
          new_purpose \in NewPurposeArgs :
        LET s == frame[t].sess
            f == [frame[t] EXCEPT !.arg.date = new_date, !.arg.time = new_time,
                                   !.arg.purpose = new_purpose]
            appointment == IF o = "ok"
                           THEN GetAppointmentById(f.arg.id, session[s].user_id)
                           ELSE 0
            g == [f EXCEPT !.target = appointment]
        IN  /\ session' = [session EXCEPT ![s] = Connected(s, o)]
            /\ frame' = [frame EXCEPT ![t] =
                    IF o = "conn"
                    THEN HandleException(f)
                    ELSE IF appointment = 0
                    THEN ReturnValue(SayResponse(SendToolCallEvent(f)), "not_found")
                    ELSE IF appts[appointment].status = "cancelled"
                    THEN ReturnValue(SayResponse(SendToolCallEvent(f)), "is_cancelled")
                    ELSE IF HasNewSlot(f.arg)
                    THEN Await(g, "mod_slots")
                    ELSE IF Truthy(f.arg.purpose)
                    THEN Await(g, "mod_update")
                    ELSE ReturnValue(SayResponse(g), "nothing_to_change")]
    /\ UNCHANGED <<users, appts, summaries, tracker, budget, flaky, clock, serial, written,
                   ai_summary_task>>

\* tools.py 901-932: db.get_booked_slots(new_date), the conflict check on the raw
\* strings, then strptime on them (ValueError unless they are %Y-%m-%d and %H:%M)
ModSlots(t) ==
    /\ frame[t].pc = "mod_slots"
    /\ \E o \in StoreOutcomes(frame[t].sess) :
        LET s == frame[t].sess
            f == [frame[t] EXCEPT !.readSlots = TRUE]
            booked_slots == IF o = "ok" THEN GetBookedSlots(f.arg.date) ELSE {}
        IN  /\ session' = [session EXCEPT ![s] = Connected(s, o)]
            /\ frame' = [frame EXCEPT ![t] =
                    IF o = "conn"
                    THEN HandleException(f)
                    ELSE IF SlotTaken(f.arg.date, f.arg.time, booked_slots)
                    THEN ReturnValue(SayResponse(SendToolCallEvent(f)), "taken")
                    ELSE IF ~StrptimeOk(f.arg.date, f.arg.time)
                    THEN HandleException(f)
                    ELSE Await(f, "mod_update")]
    /\ UNCHANGED <<users, appts, summaries, tracker, budget, flaky, clock, serial, written,
                   ai_summary_task>>

\* an update that writes all three fields, supplied or not
ApplyAllFields(doc, arg) ==
    [doc EXCEPT !.date = arg.date, !.time = arg.time,
                !.datetime = Instant(arg.date, arg.time),
                !.purpose = arg.purpose, !.updated = TRUE]

\* the `updates` dict of tools.py 898-927 applied to a document, with the
\* updated_at stamp update_appointment adds
ApplyUpdates(doc, arg) ==
    LET moved == IF HasNewSlot(arg)
                 THEN [doc EXCEPT !.date = arg.date, !.time = arg.time,
                                  !.datetime = Instant(arg.date, arg.time)]
                 ELSE doc
        purposed == IF Truthy(arg.purpose)
                    THEN [moved EXCEPT !.purpose = arg.purpose]
                    ELSE moved
    IN  [purposed EXCEPT !.updated = TRUE]

\* update_appointment: $set of the updates (a failed update_one is swallowed)
UpdateAppointment(o, appointment_id, arg) ==
    IF o = "ok" /\ appointment_id \in DOMAIN appts
    THEN [appts EXCEPT ![appointment_id] = ApplyUpdates(@, arg)]
    ELSE appts

\* updates.get("date"), updates.get("time"), updates.get("purpose")
Changes(arg) ==
    [date |-> IF HasNewSlot(arg) THEN arg.date ELSE None,
     time |-> IF HasNewSlot(arg) THEN arg.time ELSE None,
     purpose |-> IF Truthy(arg.purpose) THEN arg.purpose ELSE None]

\* tools.py 934-963: db.update_appointment; its result is not looked at
ModUpdate(t) ==
    /\ frame[t].pc = "mod_update"
    /\ \E o \in StoreOutcomes(frame[t].sess) :
        LET s == frame[t].sess
            f == frame[t]
        IN  /\ session' = [session EXCEPT ![s] = Connected(s, o)]
            /\ IF o = "conn"
               THEN /\ frame' = [frame EXCEPT ![t] = HandleException(f)]
                    /\ UNCHANGED <<appts, tracker>>
               ELSE /\ appts' = UpdateAppointment(o, f.target, f.arg)
                    /\ tracker' = [tracker EXCEPT ![s] =
                            TrackAppointmentModified(@, f.target, Changes(f.arg))]
                    /\ frame' = [frame EXCEPT ![t] =
                            ReturnValue(SendToolCallEvent(f), "modified")]
    /\ UNCHANGED <<users, summaries, budget, flaky, clock, serial, written, ai_summary_task>>

\* ---------------------------------------------------------------- end_conversation
\* ConversationTracker.get_duration_minutes: (end_time or utcnow()) - start_time, the
\* tracker having been built at time 0 and one tick of the clock standing for a minute
GetDurationMinutes(tr, now) == IF tr.end_time # 0 THEN tr.end_time ELSE now

\* the clause of one list of the tracker: singular, or with the count
CountClause(list, one, many) == IF Len(list) = 1 THEN <<one>> ELSE <<many>>

\* the generic clause that is the whole summary when nothing else was said
GenericClause == "Discussed appointment options and availability"

\* summary_service.py 375-376: the generic clause closes a summary that has only its opening
ClosingClause(parts) == IF Len(parts) <= 1 THEN Append(parts, GenericClause) ELSE parts

\* a summary text that reviews the viewed appointments whatever else happened
ReviewedAlways(tr) ==
    IF tr.appointments_viewed # <<>>
    THEN CountClause(tr.appointments_viewed, "Reviewed their upcoming appointment",
                     "Reviewed N upcoming appointments")
    ELSE <<>>

\* summary_service.py 354-364: the viewed appointments, when nothing was booked, modified
\* or cancelled
ReviewedClause(tr) ==
    IF /\ tr.appointments_viewed # <<>>
       /\ ~ (\/ tr.appointments_booked # <<>>
             \/ tr.appointments_modified # <<>>
             \/ tr.appointments_cancelled # <<>>)
    THEN CountClause(tr.appointments_viewed, "Reviewed their upcoming appointment",
                     "Reviewed N upcoming appointments")
    ELSE <<>>

\* SummaryGenerator._generate_summary_text: the text as the sequence of its clauses, which
\* the code joins with ". " and closes with "."
GenerateSummaryText(tr) ==
    LET opening ==
            IF tr.user_name # None /\ tr.user_name # "" /\ tr.user_name # "User"
            THEN <<"Spoke with NAME">>
            ELSE <<"Completed appointment conversation">>
        booked ==
            [i \in 1 .. Len(tr.appointments_booked) |-> "Successfully booked a PURPOSE"]
        modified ==
            IF tr.appointments_modified # <<>>
            THEN CountClause(tr.appointments_modified, "Rescheduled an existing appointment",
                             "Rescheduled N appointments")
            ELSE <<>>
        cancelled ==
            IF tr.appointments_cancelled # <<>>
            THEN CountClause(tr.appointments_cancelled, "Cancelled an appointment",
                             "Cancelled N appointments")
            ELSE <<>>
        preferences ==
            IF tr.user_preferences # <<>> THEN <<"Noted preferences: PREFS">> ELSE <<>>
        concerns ==
            IF tr.concerns_raised # <<>> THEN <<"Addressed N concern(s)">> ELSE <<>>
    IN  ClosingClause(opening \o booked \o modified \o cancelled \o ReviewedClause(tr)
                        \o preferences \o concerns)

\* SummaryGenerator.generate_summary: the record built from the tracker
GenerateSummary(tr) ==
    [conversation_id |-> tr.conversation_id, user_id |-> tr.user_id,
     user_phone |-> tr.user_phone, user_name |-> tr.user_name,
     appointments_discussed |->
        Len(tr.appointments_booked) + Len(tr.appointments_modified)
            + Len(tr.appointments_cancelled),
     user_preferences |-> tr.user_preferences,
     summary_text |-> GenerateSummaryText(tr),
     events_count |-> Len(tr.events)]

\* tools.py 986-997: the summary event, the end_call event, the closing message
Farewell(f) ==
    ReturnValue(SayResponse(Emit(Emit(f, "conversation_summary"), "end_call")), "ended")

\* tools.py 976-997: generate_summary seals the tracker (end_time = utcnow())
StartEndConversation(t) ==
    /\ StartGuard(t)
    /\ Started
    /\ \E s \in Sessions :
        LET f == Begin(s, "end_conversation", NoArgs)
            sealed == [tracker[s] EXCEPT !.end_time = clock + 1]
            g == [f EXCEPT !.data = GenerateSummary(sealed)]
        IN  /\ tracker' = [tracker EXCEPT ![s] = sealed]
            /\ frame' = [frame EXCEPT ![t] =
                    IF session[s].user_id # 0
                    THEN Await(g, "end_save")
                    ELSE Farewell(g)]
    /\ UNCHANGED <<users, appts, summaries, session, flaky, serial, written, ai_summary_task>>

\* an insert that no unique index guards
InsertOk(o, summary_data) == o = "ok"

\* save_conversation_summary: insert_one under the unique index on conversation_id;
\* any failure is re-raised
SaveSummaryOk(o, summary_data) ==
    /\ o = "ok"
    /\ \A i \in DOMAIN summaries : summaries[i].conversation_id # summary_data.conversation_id

\* tools.py 982-1005: db.save_conversation_summary; the except block only says goodbye
EndSave(t) ==
    /\ frame[t].pc = "end_save"
    /\ \E o \in StoreOutcomes(frame[t].sess) :
        LET s == frame[t].sess
            f == frame[t]
        IN  /\ session' = [session EXCEPT ![s] = Connected(s, o)]
            /\ IF SaveSummaryOk(o, f.data)
               THEN /\ summaries' = Append(summaries, f.data)
                    /\ written' = [written EXCEPT ![s] = @ + 1]
                    /\ frame' = [frame EXCEPT ![t] = Farewell(f)]
               ELSE /\ frame' = [frame EXCEPT ![t] = HandleException(f)]
                    /\ UNCHANGED <<summaries, written>>
    /\ UNCHANGED <<users, appts, tracker, budget, flaky, clock, serial, ai_summary_task>>

\* ---------------------------------------------------------------- return to the pipeline
\* the tool's result has been delivered; the task is free for the next tool call
Return(t) ==
    /\ frame[t].pc = "done"
    /\ frame' = [frame EXCEPT ![t] = IdleFrame]
    /\ ai_summary_task' = [ai_summary_task EXCEPT ![t] = NoTask]
    /\ UNCHANGED <<users, appts, summaries, session, tracker, budget, flaky, clock, serial,
                   written>>

Next ==
    \E t \in Tasks :
        \/ StartIdentify(t)
        \/ IdLookup(t)
        \/ IdCreate(t)
        \/ StartSetUserName(t)
        \/ NameUpdate(t)
        \/ AddUserPreference(t)
        \/ StartFetchSlots(t)
        \/ FetchGet(t)
        \/ StartBookAppointment(t)
        \/ BookSlots(t)
        \/ BookCreate(t)
        \/ StartRetrieveAppointments(t)
        \/ RetList(t)
        \/ StartCancelAppointment(t)
        \/ CanGet(t)
        \/ CanUpdate(t)
        \/ StartModifyAppointment(t)
        \/ ModGet(t)
        \/ ModSlots(t)
        \/ ModUpdate(t)
        \/ StartEndConversation(t)
        \/ EndSave(t)
        \/ Return(t)

Spec == Init /\ [][Next]_vars

SpecRace == InitRace /\ [][Next]_vars

SpecSerial == InitSerial /\ [][Next]_vars

\* ---------------------------------------------------------------- sessions with a user context
\* tool invocations of the sessions built with a user context
MaxContextCalls == 3

\* the user_context of the room metadata: a name, a phone, both or neither
UserContexts == {[name |-> n, phone |-> p] : n \in {None, "Ana"}, p \in {None, "555-0101"}}

\* tools.py 162-170: VoiceAppointmentAgent.__init__ copies the name and the phone of the
\* user context into UserData and marks the session identified when there is a phone;
\* neither user_id nor the tracker is assigned
UserDataFor(user_context) ==
    [NewUserData EXCEPT
        !.user_name = IF Truthy(user_context.name) THEN user_context.name ELSE @,
        !.user_phone = IF Truthy(user_context.phone) THEN user_context.phone ELSE @,
        !.identified = Truthy(user_context.phone)]

\* serial dispatch, no store failure; the first session is built from a user context
InitContext ==
    /\ users = <<>>
    /\ appts = <<>>
    /\ summaries = <<>>
    /\ \E user_context \in UserContexts :
        session = [s \in Sessions |->
                    IF s = 1 THEN UserDataFor(user_context) ELSE NewUserData]
    /\ tracker = [s \in Sessions |-> NewTracker]
    /\ frame = [t \in Tasks |-> IdleFrame]
    /\ clock = 0
    /\ written = [s \in Sessions |-> 0]
    /\ ai_summary_task = [t \in Tasks |-> NoTask]
    /\ budget = MaxContextCalls
    /\ flaky = FALSE
    /\ serial = TRUE

SpecContext == InitContext /\ [][Next]_vars

\* ---------------------------------------------------------------- the summary service
\* operations on one tracker and generate_frontend_summary calls that may still be made
MaxSummaryCalls == 4

\* the sessions whose conversation is tracked and summarised
SummarySessions == {1}

\* the text the external summarizer writes
AiText == <<"AI SUMMARY">>

\* summary_service.py 146, 191 and 198: the text returned without the summarizer's words
TemplateText == <<"Appointment consultation completed">>

\* what client.models.generate_content does: it returns text, returns no text, or raises
Responses == {"text", "empty", "raises"}

\* whether the call took less than ai_timeout, or more
Elapsed == {"in_time", "late"}

\* a tracker operation is a plain method call: it runs between two steps of the tasks
TrackerGuard ==
    /\ budget > 0
    /\ budget' = budget - 1
    /\ clock' = clock + 1
    /\ UNCHANGED <<users, appts, summaries, session, frame, flaky, serial, written,
                   ai_summary_task>>

\* summary_service.py 66-69
TrackBooked(s) ==
    /\ TrackerGuard
    /\ tracker' = [tracker EXCEPT ![s] =
            TrackAppointmentBooked(@, AppointmentData(session[s], "2026-02-08", "15:00",
                                                      DefaultPurpose))]

\* summary_service.py 71-74: the list is extended by what was shown, which may be nothing
TrackViewed(s) ==
    /\ TrackerGuard
    /\ \E shown \in {<<>>, <<1>>} :
        tracker' = [tracker EXCEPT ![s] = TrackAppointmentViewed(@, shown)]

\* summary_service.py 76-84
TrackModified(s) ==
    /\ TrackerGuard
    /\ tracker' = [tracker EXCEPT ![s] = TrackAppointmentModified(@, 1, <<"purpose">>)]

\* summary_service.py 86-93
TrackCancelled(s) ==
    /\ TrackerGuard
    /\ tracker' = [tracker EXCEPT ![s] = TrackAppointmentCancelled(@, 1)]

\* summary_service.py 99-101
TrackConcern(s) ==
    /\ TrackerGuard
    /\ tracker' = [tracker EXCEPT ![s].concerns_raised = Append(@, "concern")]

\* summary_service.py 38-39: the name and preference fields, which their owner assigns
TrackUserInfo(s) ==
    /\ TrackerGuard
    /\ \/ \E name \in {"User", "Ana"} : tracker' = [tracker EXCEPT ![s].user_name = name]
       \/ tracker' = [tracker EXCEPT ![s].user_preferences = Append(@, "mornings")]

\* summary_service.py 217-225: the deterministic record, then, if there are messages, the
\* summarizer task is created and awaited with a timeout
StartFrontendSummary(t) ==
    /\ StartGuard(t)
    /\ Started
    /\ \E s \in SummarySessions, messages \in BOOLEAN :
        LET f == Begin(s, "generate_frontend_summary", NoArgs)
            sealed == [tracker[s] EXCEPT !.end_time = clock + 1]
            g == [f EXCEPT !.data = GenerateSummary(sealed)]
        IN  /\ tracker' = [tracker EXCEPT ![s] = sealed]
            /\ IF messages
               THEN /\ frame' = [frame EXCEPT ![t] = Await(g, "wait_for")]
                    /\ ai_summary_task' =
                            [ai_summary_task EXCEPT ![t] = [NoTask EXCEPT !.state = "created"]]
               ELSE /\ frame' = [frame EXCEPT ![t] = [g EXCEPT !.pc = "done"]]
                    /\ ai_summary_task' = [ai_summary_task EXCEPT ![t] = NoTask]
    /\ UNCHANGED <<users, appts, summaries, session, flaky, serial, written>>

\* summary_service.py 143-180: the task's body up to the external call.  Without a client
\* it returns the template at once; with one it enters client.models.generate_content, a
\* synchronous call: the body has no await, so the event loop runs nothing else until
\* the call is over
AiSummaryRun(t) ==
    /\ ai_summary_task[t].state = "created"
    /\ \E client \in BOOLEAN :
        ai_summary_task' = [ai_summary_task EXCEPT ![t] =
            IF client
            THEN [@ EXCEPT !.state = "blocked"]
            ELSE [@ EXCEPT !.state = "finished", !.response = "unavailable",
                           !.elapsed = "in_time", !.result = TemplateText]]
    /\ UNCHANGED <<users, appts, summaries, session, tracker, frame, budget, flaky, clock,
                   serial, written>>

\* summary_service.py 186-198: what the task returns for each response of the summarizer
AiSummaryResult(response) == IF response = "text" THEN AiText ELSE TemplateText

\* summary_service.py 179-198: the external call is over, the task's body runs to its end
GenerateContentReturns(t) ==
    /\ ai_summary_task[t].state = "blocked"
    /\ \E response \in Responses, elapsed \in Elapsed :
        ai_summary_task' = [ai_summary_task EXCEPT ![t] =
            [state |-> "finished", response |-> response, elapsed |-> elapsed,
             result |-> AiSummaryResult(response)]]
    /\ UNCHANGED <<users, appts, summaries, session, tracker, frame, budget, flaky, clock,
                   serial, written>>

\* summary_service.py 227-230: the awaited text replaces the summary text
AdoptAiSummary(summary_data, ai_summary_text) ==
    [summary_data EXCEPT !.summary_text = ai_summary_text]

\* summary_service.py 227-246: asyncio.wait_for is resumed once the task is finished.  A
\* task that finished after the timeout had run out finished together with the timer:
\* wait_for then returns its result or raises TimeoutError, as the interpreter's
\* implementation of wait_for decides
WaitForReturns(t) ==
    /\ frame[t].pc = "wait_for"
    /\ ai_summary_task[t].state = "finished"
    /\ \E timed_out \in BOOLEAN :
        /\ timed_out => ai_summary_task[t].elapsed = "late"
        /\ frame' = [frame EXCEPT ![t] =
                [@ EXCEPT !.pc = "done",
                          !.data = IF timed_out
                                   THEN @
                                   ELSE AdoptAiSummary(@, ai_summary_task[t].result)]]
    /\ UNCHANGED <<users, appts, summaries, session, tracker, budget, flaky, clock, serial,
                   written, ai_summary_task>>

\* summary_service.py 231-238: the timeout runs out while the task has not started (an
\* ai_timeout of zero): wait_for cancels the task, the deterministic record is returned
WaitForTimeout(t) ==
    /\ frame[t].pc = "wait_for"
    /\ ai_summary_task[t].state = "created"
    /\ frame' = [frame EXCEPT ![t].pc = "done"]
    /\ ai_summary_task' = [ai_summary_task EXCEPT ![t].state = "cancelled"]
    /\ UNCHANGED <<users, appts, summaries, session, tracker, budget, flaky, clock, serial,
                   written>>

\* one session: its tracker is operated on and summarised, one summary at a time
InitSummary ==
    /\ InitStore
    /\ budget = MaxSummaryCalls
    /\ flaky = FALSE
    /\ serial = TRUE

NextSummary ==
    \/ \E s \in SummarySessions :
        \/ TrackBooked(s)
        \/ TrackViewed(s)
        \/ TrackModified(s)
        \/ TrackCancelled(s)
        \/ TrackConcern(s)
        \/ TrackUserInfo(s)
    \/ \E t \in Tasks :
        \/ StartFrontendSummary(t)
        \/ AiSummaryRun(t)
        \/ GenerateContentReturns(t)
        \/ WaitForReturns(t)
        \/ WaitForTimeout(t)
        \/ Return(t)

SpecSummary == InitSummary /\ [][NextSummary]_vars

\* the event loop keeps running its tasks; nothing obliges the external summarizer to
\* answer
FairSummary ==
    \A t \in Tasks :
        /\ WF_vars(AiSummaryRun(t) \/ WaitForTimeout(t))
        /\ WF_vars(WaitForReturns(t))

SpecSummaryFair == SpecSummary /\ FairSummary

\* ================================================================ claims
Active(i) == appts[i].status # "cancelled"

\* an active appointment occupies (date, time)
Occupied(date, time) ==
    \E i \in DOMAIN appts : Active(i) /\ appts[i].date = date /\ appts[i].time = time

\* book_appointment(date, time) issued now by session s would create an appointment
BookWouldAccept(s, date, time) ==
    LET nd == IF date # "" THEN NormalizeDate(date) ELSE TomorrowDate
        nt == NormalizeTime(time)
    IN  /\ session[s].user_id # 0
        /\ nd # None
        /\ nt # None
        /\ IsAllowedSlot(nd, nt)
        /\ ~Occupied(nd, nt)

\* C1: no two appointments whose status is not cancelled have the same (date, time),
\* whatever the interleaving of the sessions' tool calls.
C1_NoDoubleBooking ==
    \A i, j \in DOMAIN appts :
        (i # j /\ Active(i) /\ Active(j))
            => <<appts[i].date, appts[i].time>> # <<appts[j].date, appts[j].time>>

\* the finished tool invocations
Done(t, tool) == frame[t].pc = "done" /\ frame[t].tool = tool

\* C2: with serial dispatch and no store failure, a book_appointment call by an
\* identified session for a slot of the calendar ends either "taken" or "booked": taken
\* exactly when an active appointment occupies the slot (and then creates nothing),
\* booked exactly when none does (and then the new confirmed appointment is the only
\* active one on the slot).
C2_BookIffFree ==
    \A t \in Tasks :
        LET f == frame[t]
            others == {i \in DOMAIN appts :
                         /\ i # f.target
                         /\ Active(i)
                         /\ appts[i].date = f.nd
                         /\ appts[i].time = f.nt}
        IN  /\ (f.pc = "book_create") => ~Occupied(f.nd, f.nt)
            /\ (Done(t, "book_appointment") /\ f.nd # None /\ f.nt # None
                    /\ IsAllowedSlot(f.nd, f.nt))
                => \/ /\ f.outcome = "taken"
                      /\ f.target = 0
                      /\ Occupied(f.nd, f.nt)
                   \/ /\ f.outcome = "booked"
                      /\ f.target = Len(appts)
                      /\ appts[f.target].status = "confirmed"
                      /\ appts[f.target].user_id = session[f.sess].user_id
                      /\ appts[f.target].date = f.nd
                      /\ appts[f.target].time = f.nt
                      /\ others = {}

\* C2 witness: two different slots are booked and a further booking of one of them
\* has just been refused as taken.
C2_Witness ==
    \E t \in Tasks :
        /\ Done(t, "book_appointment")
        /\ frame[t].outcome = "taken"
        /\ Cardinality({<<appts[i].date, appts[i].time>> : i \in {j \in DOMAIN appts : Active(j)}}) = 2

\* C3: every active appointment sits on a time of availableTimes(date) of its date.
C3_ActiveInWindow ==
    \A i \in DOMAIN appts : Active(i) => IsAllowedSlot(appts[i].date, appts[i].time)

\* C4: modify_appointment with a new date and a new time is accepted exactly when
\* book_appointment for that date and time, issued in the same state by the same
\* session, would be accepted.
C4_ModifySameRuleAsBook ==
    [][\A t \in Tasks :
          (frame[t].pc = "mod_slots" /\ frame'[t].pc # "mod_slots")
              => ((frame'[t].pc = "mod_update")
                    <=> BookWouldAccept(frame[t].sess, frame[t].arg.date, frame[t].arg.time))]_vars

\* only a new purpose: no new date, no new time
PurposeOnly(arg) == arg.date = "" /\ arg.time = "" /\ arg.purpose # ""

\* C5: modify_appointment with only a new purpose never reads the booked slots, is
\* never refused as taken, and changes nothing in the store but its target's purpose
\* and updated-at stamp.
C5_PurposeOnlyFrame ==
    [][\A t \in Tasks :
          LET f == frame[t]
              g == frame'[t]
          IN  /\ (f.pc = "mod_get" /\ g.pc \notin {"mod_get", "done"} /\ PurposeOnly(g.arg))
                  => /\ g.pc = "mod_update"
                     /\ ~g.readSlots
                     /\ appts' = appts
              /\ (f.pc = "mod_update" /\ g.pc # "mod_update" /\ PurposeOnly(f.arg))
                  => /\ ~f.readSlots
                     /\ g.outcome # "taken"
                     /\ DOMAIN appts' = DOMAIN appts
                     /\ \A i \in DOMAIN appts : (i # f.target) => (appts'[i] = appts[i])
                     /\ [appts'[f.target] EXCEPT !.purpose = appts[f.target].purpose,
                                                 !.updated = appts[f.target].updated]
                            = appts[f.target]
                     /\ appts'[f.target].purpose \in {appts[f.target].purpose, f.arg.purpose}]_vars

\* C5 witness: a purpose-only modification has been applied, without a look at the
\* booked slots, while another active appointment exists.
C5_Witness ==
    \E t \in Tasks :
        /\ Done(t, "modify_appointment")
        /\ frame[t].outcome = "modified"
        /\ ~frame[t].readSlots
        /\ appts[frame[t].target].purpose = "checkup"
        /\ appts[frame[t].target].updated
        /\ \E i \in DOMAIN appts : i # frame[t].target /\ Active(i)

\* C6: once cancel_appointment has answered "cancelled" for appointment A, A is still
\* among its owner's appointments with status cancelled, its slot is not among the
\* booked slots of its date, fetch_slots for that date would offer the time, and a
\* book_appointment for the slot by the same session would be accepted.
C6_CancelFreesSlot ==
    \A t \in Tasks :
        (Done(t, "cancel_appointment") /\ frame[t].outcome = "cancelled")
            => LET a == appts[frame[t].target]
               IN  /\ a.status = "cancelled"
                   /\ frame[t].target \in GetUserAppointments(session[frame[t].sess].user_id)
                   /\ <<a.date, a.time>> \notin GetBookedSlots(a.date)
                   /\ a.time \in SeqToSet(AvailableSlots(a.date, GetBookedSlots(a.date)))
                   /\ BookWouldAccept(frame[t].sess, a.date, a.time)

\* C7: an identify_user call started in a session that a completed identify_user has
\* marked identified answers "already identified" on the spot: no lookup, no creation,
\* the session's user id, phone and name as they were.
C7_IdentifyIdempotent ==
    [][\A t \in Tasks :
          (/\ frame[t].pc = "idle"
           /\ frame'[t].tool = "identify_user"
           /\ session[frame'[t].sess].identified)
              => /\ frame'[t].pc = "done"
                 /\ frame'[t].outcome = "already_identified"
                 /\ session' = session]_vars

\* C8 as stated: whenever an identify_user call has returned, the session is identified.
C8_AlwaysIdentified ==
    \A t \in Tasks : Done(t, "identify_user") => session[frame[t].sess].identified

\* C8 amended: an identify_user call that returns after its lookup either found or
\* created the user, and then the session is identified with that user's id; or the
\* store raised, and then the call answers with the apology, raises nothing and leaves
\* the session's user id, phone, name and identified flag as they were.
C8_IdentifiedUnlessStoreRaised ==
    [][\A t \in Tasks :
          (frame[t].pc \in {"id_lookup", "id_create"} /\ frame'[t].pc = "done")
              => LET s  == frame[t].sess
                     sd == session'[s]
                 IN  \/ /\ frame'[t].outcome = "identified"
                        /\ sd.identified
                        /\ sd.user_id \in DOMAIN users'
                        /\ users'[sd.user_id].phone = CleanPhone(frame[t].arg.phone)
                        /\ sd.user_phone = CleanPhone(frame[t].arg.phone)
                     \/ /\ frame'[t].outcome = "error"
                        /\ ~frame'[t].raised
                        /\ frame'[t].said = 1
                        /\ [sd EXCEPT !.connected = session[s].connected] = session[s]
                        /\ users' = users]_vars

\* C8 witness: an identify_user call has ended in the apology and its session is not
\* identified.
C8_Witness ==
    \E t \in Tasks :
        /\ Done(t, "identify_user")
        /\ frame[t].outcome = "error"
        /\ ~session[frame[t].sess].identified

\* C9: no tool invocation raises: every one that is over has returned a value, and its
\* task can be handed back for the session's next tool call.
C9_NothingPropagates ==
    \A t \in Tasks :
        /\ ~frame[t].raised
        /\ frame[t].pc = "done"
            => /\ frame[t].outcome \notin {"", "raised"}
               /\ ENABLED Return(t)

\* C9 witness: a store write failed under book_appointment and the call has returned
\* its apology.
C9_Witness ==
    \E t \in Tasks :
        /\ Done(t, "book_appointment")
        /\ frame[t].outcome = "error"
        /\ frame[t].said = 1
        /\ session[frame[t].sess].identified

\* C10: every end_conversation that is over has emitted conversation_summary, then
\* end_call, and has said the closing message.
C10_SummaryThenEndCall ==
    \A t \in Tasks :
        Done(t, "end_conversation")
            => /\ frame[t].events = <<"conversation_summary", "end_call">>
               /\ frame[t].said = 1

\* C11: an end_conversation call, the first of its session to reach the store, inserts
\* one summary record exactly when the session's user id is known, and leaves the
\* summary collection as it was when the user id is unknown.
C11_SummaryIffUserKnown ==
    [][\A t \in Tasks :
          LET g == frame'[t]
              s == g.sess
          IN  (/\ frame[t].pc \in {"idle", "end_save"}
               /\ g.pc = "done"
               /\ g.tool = "end_conversation"
               /\ written[s] = 0)
                  => IF session[s].user_id # 0
                     THEN Len(summaries') = Len(summaries) + 1
                     ELSE summaries' = summaries]_vars

\* C12: once a tracker's end time is set no step changes it, and its duration in
\* minutes stays the same.
C12_SealedOnce ==
    [][\A s \in Sessions :
          (tracker[s].end_time # 0)
              => /\ tracker'[s].end_time = tracker[s].end_time
                 /\ GetDurationMinutes(tracker'[s], clock')
                        = GetDurationMinutes(tracker[s], clock)]_vars

\* C13: no session ever has more than one summary record of its own in the store,
\* however often its end_conversation runs, and a record once written stays as it is.
C13_OneSummaryPerSession ==
    [][/\ \A s \in Sessions : written'[s] <= 1
       /\ Len(summaries') = written'[1] + written'[2]
       /\ \A i \in DOMAIN summaries :
            i \in DOMAIN summaries' /\ summaries'[i] = summaries[i]]_vars

\* C13 witness: a session whose record is in the store has run end_conversation again,
\* and that call has returned without adding a record.
C13_Witness ==
    \E t \in Tasks :
        /\ Done(t, "end_conversation")
        /\ frame[t].outcome = "error"
        /\ written[frame[t].sess] = 1
        /\ Len(summaries) = 1

\* C14: when add_user_preference has run with a text that is not empty once trimmed,
\* the tracker's preference list holds a supplied preference and the store is as it was.
C14_PreferenceRecorded ==
    [][\A t \in Tasks :
          (/\ frame[t].pc = "idle"
           /\ frame'[t].tool = "add_user_preference"
           /\ frame'[t].outcome # "invalid")
              => /\ \E pref \in PrefArgs :
                        /\ Strip(pref) # ""
                        /\ Strip(pref) \in SeqToSet(tracker'[frame'[t].sess].user_preferences)
                 /\ <<users', appts', summaries'>> = <<users, appts, summaries>>]_vars

C16_UnparsableMeansTomorrow ==
    [][\A t \in Tasks :
          LET f == frame[t]
              g == frame'[t]
              Free(time) == ~Occupied(TomorrowDate, time)
          IN  (f.pc = "fetch_get" /\ g.pc = "done" /\ NormalizeDate(f.arg.date) = None)
                  => /\ g.outcome \in {"slots", "fully_booked"}
                     /\ g.offered = SelectSeq(GetAvailableSlotsForDate(TomorrowDate), Free)]_vars

\* C17: every retrieve_appointments call of an identified session that returns a
\* listing, an empty one included, appends an appointments_viewed event to the tracker.
C17_ViewAlwaysTracked ==
    [][\A t \in Tasks :
          LET s == frame[t].sess
          IN  (/\ frame[t].pc = "ret_list"
               /\ frame'[t].pc = "done"
               /\ frame'[t].outcome # "error")
                  => tracker'[s].events = Append(tracker[s].events, "appointments_viewed")]_vars

\* the caller's appointments that the arguments of a cancel_appointment call name
Named(uid, arg) ==
    IF arg.id # 0
    THEN {i \in DOMAIN appts : i = arg.id /\ appts[i].user_id = uid}
    ELSE {i \in DOMAIN appts :
            appts[i].user_id = uid /\ appts[i].date = arg.date /\ appts[i].time = arg.time}

\* C18: a cancel_appointment call whose arguments, id or date and time, name only
\* cancelled appointments of the caller ends at its lookup: no store write, the
\* appointments as they were, nothing added to the tracker.
C18_CancelCancelledIsNoOp ==
    [][\A t \in Tasks :
          LET f == frame[t]
              named == Named(session[f.sess].user_id, f.arg)
          IN  (/\ f.pc = "can_get"
               /\ frame'[t].pc # "can_get"
               /\ named # {}
               /\ \A i \in named : ~Active(i))
                  => /\ frame'[t].pc = "done"
                     /\ frame'[t].outcome \in {"already_cancelled", "not_found", "error"}
                     /\ appts' = appts
                     /\ tracker' = tracker]_vars

\* C18 witness: an appointment has been cancelled once, recorded once in the tracker,
\* and a further cancel_appointment for it has answered "already cancelled".
C18_Witness ==
    \E t \in Tasks :
        /\ Done(t, "cancel_appointment")
        /\ frame[t].outcome = "already_cancelled"
        /\ Len(tracker[frame[t].sess].appointments_cancelled) = 1
        /\ \E i \in DOMAIN appts : ~Active(i)

\* C19: the first segment of a cancel_appointment call of an identified session goes
\* on to the store lookup only with an id or with both a date and a time; otherwise it
\* returns the clarification request at once, with no store call and the tracker
\* as it was.
C19_CancelNeedsTarget ==
    [][\A t \in Tasks :
          LET g == frame'[t]
          IN  (/\ frame[t].pc = "idle"
               /\ g.tool = "cancel_appointment"
               /\ session[g.sess].user_id # 0)
                  => \/ /\ g.pc = "can_get"
                        /\ g.arg.id # 0 \/ (g.arg.date # "" /\ g.arg.time # "")
                     \/ /\ g.pc = "done"
                        /\ g.outcome = "clarify"
                        /\ g.said = 1
                        /\ g.events = <<>>
                        /\ <<users', appts', summaries', session', tracker'>>
                              = <<users, appts, summaries, session, tracker>>]_vars

\* C19 witness: an identified session has been asked to say which appointment to cancel.
C19_Witness ==
    \E t \in Tasks :
        /\ Done(t, "cancel_appointment")
        /\ frame[t].outcome = "clarify"
        /\ session[frame[t].sess].identified

\* C20: set_user_name with an empty or blank name changes nothing; with any other name
\* it puts the trimmed name into the session when it starts and into the tracker,
\* with a name_saved event, when it returns, whether or not a user id is known and
\* whether or not the store write went through; it never ends in the apology then.
C20_NameKeptWhateverTheStore ==
    [][\A t \in Tasks :
          LET f == frame[t]
              g == frame'[t]
              s == g.sess
              Saved(name) == /\ name \notin {"", " ", "  ", None}
                             /\ g.outcome = "name_set"
                             /\ tracker'[s].user_name = name
                             /\ tracker'[s].events = Append(tracker[s].events, "name_saved")
          IN  /\ (f.pc = "idle" /\ g.tool = "set_user_name")
                  => \/ /\ g.outcome = "invalid"
                        /\ <<users', session', tracker'>> = <<users, session, tracker>>
                     \/ /\ g.pc = "name_update"
                        /\ session[s].user_id # 0
                        /\ session'[s].user_name \notin {"", " ", "  ", None}
                        /\ g.arg.name = session'[s].user_name
                     \/ /\ g.pc = "done"
                        /\ session[s].user_id = 0
                        /\ Saved(session'[s].user_name)
                        /\ users' = users
              /\ (f.pc = "name_update" /\ g.pc # "name_update")
                  => /\ g.pc = "done"
                     /\ Saved(f.arg.name)
                     /\ users' \in {users, [users EXCEPT ![session[s].user_id].name = f.arg.name]}]_vars

\* C20 witness: set_user_name has returned in an identified session with the name in
\* the session and in the tracker while the store still has no name for the user:
\* the write failed.
C20_Witness ==
    \E t \in Tasks :
        LET s == frame[t].sess
        IN  /\ Done(t, "set_user_name")
            /\ frame[t].outcome = "name_set"
            /\ session[s].user_id # 0
            /\ session[s].user_name = "Ana"
            /\ tracker[s].user_name = "Ana"
            /\ users[session[s].user_id].name = None

\* the tool_call events a frame has emitted
ToolCallEvents(f) == SelectSeq(f.events, LAMBDA e : e = "tool_call")

\* C21: every tool invocation that is over has emitted exactly one tool_call event,
\* whatever its outcome.
C21_OneToolCallEvent ==
    \A t \in Tasks : (frame[t].pc = "done") => (Len(ToolCallEvents(frame[t])) = 1)

\* the summarizer call of task t succeeded within the timeout
AiSucceededInTime(t) ==
    /\ ai_summary_task[t].state = "finished"
    /\ ai_summary_task[t].response = "text"
    /\ ai_summary_task[t].elapsed = "in_time"

\* C22: the summary text generate_frontend_summary returns is the summarizer's output
\* only when the external call succeeded within the timeout; when it timed out, raised
\* or was unavailable the text is the deterministic text, unchanged.
C22_AiTextOnlyOnSuccess ==
    [][\A t \in Tasks :
        (frame[t].pc = "wait_for" /\ frame'[t].pc = "done") =>
            frame'[t].data.summary_text =
                IF AiSucceededInTime(t) THEN AiText ELSE frame[t].data.summary_text]_vars

\* C23: the augmentation attempt is bounded: a generate_frontend_summary call that waits
\* for the summarizer always returns, even when the external call never completes.
C23_SummaryAlwaysReturns ==
    \A t \in Tasks : (frame[t].pc = "wait_for") ~> (frame[t].pc = "done")

\* the clauses that report the viewed appointments
ReviewedClauses == {"Reviewed their upcoming appointment", "Reviewed N upcoming appointments"}

\* nothing was booked, modified or cancelled in the conversation tr tracks
NothingChanged(tr) ==
    /\ tr.appointments_booked = <<>>
    /\ tr.appointments_modified = <<>>
    /\ tr.appointments_cancelled = <<>>

\* C24: for every tracker state the deterministic summary text is non-empty; it contains
\* the generic discussed-options clause when nothing was booked, modified, cancelled,
\* viewed, preferred or raised; and the viewed-count clause appears only when the viewed
\* list is non-empty and the booked, modified and cancelled lists are all empty.
C24_SummaryTextClauses ==
    \A s \in Sessions :
        LET tr == tracker[s]
            clauses == SeqToSet(GenerateSummaryText(tr))
        IN  /\ clauses # {}
            /\ "" \notin clauses
            /\ ( /\ NothingChanged(tr)
                 /\ tr.appointments_viewed = <<>>
                 /\ tr.user_preferences = <<>>
                 /\ tr.concerns_raised = <<>> ) => GenericClause \in clauses
            /\ (clauses \cap ReviewedClauses # {}) =>
                    (tr.appointments_viewed # <<>> /\ NothingChanged(tr))

\* a summary has been returned whose text reports the viewed appointments, and the
\* tracker it was made from has seen an appointment booked since
C24_Witness ==
    \E t \in Tasks :
        /\ frame[t].pc = "done"
        /\ frame[t].tool = "generate_frontend_summary"
        /\ SeqToSet(frame[t].data.summary_text) \cap ReviewedClauses # {}
        /\ tracker[frame[t].sess].appointments_booked # <<>>
        /\ SeqToSet(GenerateSummaryText(tracker[frame[t].sess])) \cap ReviewedClauses = {}

\* the dates a tool may pass to the calendar
CalendarDates == DateArgs \cup IsoDates \cup {TomorrowDate} \cup DOMAIN MOCK_CALENDAR_2026_FEB

\* the times of the dates the calls name, as the calendar's source text lists them
ListedTimes(date) ==
    CASE date = "2026-02-08" -> <<"12:00", "15:00", "19:00">>
      [] date = "2026-02-09" -> <<>>
      [] OTHER -> <<"12:00", "15:00", "17:00", "18:00", "19:00">>

\* C25: availableTimes(date) is the default list for a date with no override entry and
\* exactly the override entry's list, in its order and possibly empty, for a date with
\* one; it depends on nothing but the date: in every state of the store and the
\* sessions the slots a fetch offers for a date with no active appointment are the
\* listed ones.
C25_AvailableTimes ==
    /\ \A date \in CalendarDates :
        GetAvailableSlotsForDate(date) =
            IF date \in DOMAIN MOCK_CALENDAR_2026_FEB
            THEN MOCK_CALENDAR_2026_FEB[date]
            ELSE DEFAULT_SLOTS
    /\ \A date \in {"2026-02-08", "2026-02-09", TomorrowDate} :
        GetAvailableSlotsForDate(date) = ListedTimes(date)
    /\ \A t \in Tasks :
        ( /\ Done(t, "fetch_slots")
          /\ frame[t].outcome \in {"slots", "fully_booked"}
          /\ \A i \in DOMAIN appts : Active(i) => appts[i].date # frame[t].nd )
        => frame[t].offered = ListedTimes(frame[t].nd)

\* with appointments in the store, fetches have been answered for a closed day (an
\* empty override entry) and for a date outside the override calendar
C25_Witness ==
    /\ appts # <<>>
    /\ \E t \in Tasks :
        /\ Done(t, "fetch_slots")
        /\ frame[t].nd = "2026-02-09"
        /\ frame[t].outcome = "fully_booked"
        /\ frame[t].offered = <<>>

\* sequence a is an initial part of sequence b
IsPrefix(a, b) == Len(a) <= Len(b) /\ \A i \in DOMAIN a : a[i] = b[i]

\* C26: the tracker's event log is append-only: across every step the log before is a
\* prefix of the log after; the booked, modified, cancelled and viewed lists likewise
\* only grow by appending.
C26_TrackerAppendOnly ==
    [][\A s \in Sessions :
        /\ IsPrefix(tracker[s].events, tracker'[s].events)
        /\ IsPrefix(tracker[s].appointments_booked, tracker'[s].appointments_booked)
        /\ IsPrefix(tracker[s].appointments_modified, tracker'[s].appointments_modified)
        /\ IsPrefix(tracker[s].appointments_cancelled, tracker'[s].appointments_cancelled)
        /\ IsPrefix(tracker[s].appointments_viewed, tracker'[s].appointments_viewed)]_vars

\* a tracker that has logged an identification, a booking and a cancellation
C26_Witness ==
    \E s \in Sessions :
        /\ Len(tracker[s].events) >= 3
        /\ tracker[s].appointments_booked # <<>>
        /\ tracker[s].appointments_cancelled # <<>>

\* the outcomes of a book_appointment call that was rejected
BookRejections == {"need_identify", "invalid", "not_allowed", "taken"}

\* task t finishes a book_appointment call in this step
BookEnds(t) ==
    /\ frame[t].pc # "done"
    /\ frame'[t].pc = "done"
    /\ frame'[t].tool = "book_appointment"

\* C27: every rejected book_appointment call (not identified, invalid date or time, time
\* not allowed on the date, slot already taken) leaves the stored appointments, the
\* session's pending-appointment snapshot and the tracker's booked list and event log
\* unchanged; the not-identified rejection performs no store read.  The calls rejected
\* are those of an unidentified session, for a time outside the date's calendar, or for
\* an occupied slot.
C27_RejectedBookChangesNothing ==
    [][\A t \in Tasks :
        /\ (BookEnds(t) /\ frame'[t].outcome \in BookRejections) =>
                /\ appts' = appts
                /\ users' = users
                /\ tracker' = tracker
                /\ \A s \in Sessions :
                    session'[s].pending_appointment = session[s].pending_appointment
                /\ (frame'[t].outcome = "need_identify") =>
                        (~ frame'[t].readSlots /\ session' = session /\ frame[t].pc = "idle")
        /\ (frame[t].pc = "idle" /\ frame'[t].tool = "book_appointment") =>
                LET sd == session[frame'[t].sess]
                    f == frame'[t]
                IN  /\ (sd.user_id = 0) => (f.pc = "done" /\ f.outcome = "need_identify")
                    /\ (f.pc = "book_slots") =>
                            f.nt \in SeqToSet(GetAvailableSlotsForDate(f.nd))
        /\ (frame[t].pc = "book_slots" /\ Occupied(frame[t].nd, frame[t].nt)) =>
                (frame'[t].pc = "done" /\ frame'[t].outcome = "taken")]_vars

\* a call for a slot that is taken has been rejected in a session that holds the
\* snapshot of an earlier booking
C27_Witness ==
    \E t \in Tasks :
        /\ Done(t, "book_appointment")
        /\ frame[t].outcome = "taken"
        /\ session[frame[t].sess].pending_appointment # <<>>
        /\ tracker[frame[t].sess].appointments_booked # <<>>

\* task t is about to look up, for cancel or modify, an appointment that exists and
\* belongs to another user than its session's
NamesForeignAppointment(t) ==
    /\ frame[t].pc \in {"can_get", "mod_get"}
    /\ frame[t].arg.id \in DOMAIN appts
    /\ appts[frame[t].arg.id].user_id # session[frame[t].sess].user_id

\* C28: owner scoping: an appointment is changed only by a cancel or modify call of a
\* session whose user id is the appointment's owner, and its owner never changes; a
\* call that names an existing appointment of another user ends as not found and
\* leaves the appointments unchanged.
C28_OwnerScoped ==
    [][/\ \A i \in DOMAIN appts :
            (appts'[i] # appts[i]) =>
                /\ appts'[i].user_id = appts[i].user_id
                /\ \E t \in Tasks :
                    /\ frame[t].tool \in {"cancel_appointment", "modify_appointment"}
                    /\ frame[t].target = i
                    /\ session[frame[t].sess].user_id = appts[i].user_id
       /\ \A t \in Tasks :
            (NamesForeignAppointment(t) /\ frame'[t] # frame[t]) =>
                /\ frame'[t].pc = "done"
                /\ frame'[t].outcome = "not_found"
                /\ appts' = appts]_vars

\* an identified session has asked to cancel or modify an active appointment of another
\* user, by its id
C28_Witness ==
    \E t \in Tasks :
        /\ NamesForeignAppointment(t)
        /\ session[frame[t].sess].user_id # 0
        /\ Active(frame[t].arg.id)

\* C29: cancellation is terminal and modify needs a non-cancelled target: under any
\* interleaving of tool calls no step changes the date, time or purpose of a cancelled
\* appointment and none moves an appointment out of the cancelled status.
C29_CancelledIsTerminal ==
    [][\A i \in DOMAIN appts :
        (appts[i].status = "cancelled") =>
            /\ appts'[i].status = "cancelled"
            /\ appts'[i].date = appts[i].date
            /\ appts'[i].time = appts[i].time
            /\ appts'[i].purpose = appts[i].purpose]_vars

\* the session holds a name the caller supplied, not the placeholder
HoldsCallerName(sd) == sd.user_name \notin {None, "", "User"}

\* C30: session identity is monotonic: the identified flag never returns from true to
\* false, and once the session holds a caller-supplied name no later step of a tool
\* call replaces it with the "User" placeholder.
C30_IdentityMonotonic ==
    [][\A s \in Sessions :
        /\ session[s].identified => session'[s].identified
        /\ HoldsCallerName(session[s]) => session'[s].user_name # "User"]_vars

\* C31: user uniqueness: under any interleaving of identify calls of concurrent
\* sessions, store failures included, no two user records have the same normalized
\* phone, and no user record is deleted or gets another phone.
C31_UsersUnique ==
    [][/\ \A i, j \in DOMAIN users' : (users'[i].phone = users'[j].phone) => (i = j)
       /\ \A i \in DOMAIN users :
            i \in DOMAIN users' /\ users'[i].phone = users[i].phone]_vars

\* a session is about to create a user for a phone that another session's user already
\* has: its lookup ran before that user was created, or failed
C31_Witness ==
    \E t, u \in Tasks :
        /\ frame[t].pc = "id_create"
        /\ Done(u, "identify_user")
        /\ frame[u].outcome = "identified"
        /\ frame[u].sess # frame[t].sess
        /\ session[frame[u].sess].user_phone = CleanPhone(frame[t].arg.phone)
        /\ GetUserByPhone(CleanPhone(frame[t].arg.phone)) = session[frame[u].sess].user_id
        /\ session[frame[t].sess].user_id = 0

\* a book_appointment call can be started now
CanStartCall == budget > 0 /\ \A u \in Tasks : frame[u].pc = "idle"

\* C32: each book_appointment outcome has its own cause and can occur without the
\* others: whenever a call can start, a session without user id can be given the
\* not-identified rejection and a session with one the time-not-allowed rejection;
\* a call that has passed the calendar check can be given the slot-taken rejection
\* exactly when the slot is occupied and can go on to create otherwise; a call about
\* to create can end as booked.
C32_OutcomesIndependent ==
    \A t \in Tasks :
        /\ (CanStartCall /\ t = 1) =>
                /\ (\E s \in Sessions : session[s].user_id = 0) =>
                        ENABLED (StartBookAppointment(t)
                                    /\ frame'[t].outcome = "need_identify")
                /\ (\E s \in Sessions : session[s].user_id # 0) =>
                        ENABLED (StartBookAppointment(t)
                                    /\ frame'[t].outcome = "not_allowed")
        /\ (frame[t].pc = "book_slots") =>
                /\ Occupied(frame[t].nd, frame[t].nt) <=>
                        ENABLED (BookSlots(t) /\ frame'[t].outcome = "taken")
                /\ ~ Occupied(frame[t].nd, frame[t].nt) <=>
                        ENABLED (BookSlots(t) /\ frame'[t].pc = "book_create")
        /\ (frame[t].pc = "book_create") =>
                ENABLED (BookCreate(t) /\ frame'[t].outcome = "booked")

\* a session that has booked nothing has been given the slot-taken rejection, for a
\* slot that another user's appointment occupies
C32_Witness ==
    \E t \in Tasks :
        /\ Done(t, "book_appointment")
        /\ frame[t].outcome = "taken"
        /\ tracker[frame[t].sess].appointments_booked = <<>>
        /\ session[frame[t].sess].pending_appointment = <<>>
        /\ \E i \in DOMAIN appts :
            Active(i) /\ appts[i].user_id # session[frame[t].sess].user_id

\* C33: in every reachable session state, a session built with a user context included,
\* identified being true implies that a user id is known: a tool call of an identified
\* session never ends refused for lack of identification.
C33_IdentifiedHasUserId ==
    \A t \in Tasks :
        (frame[t].pc = "done" /\ session[frame[t].sess].identified) =>
            /\ session[frame[t].sess].user_id # 0
            /\ frame[t].outcome # "need_identify"

\* no tool call is in flight
NoCallInFlight == \A t \in Tasks : frame[t].pc \in {"idle", "done"}

\* C34: whenever no tool call is in flight, the tracker's user id, phone and name equal
\* the session's user id, phone and name, whatever the store did.
C34_TrackerNamesSessionUser ==
    NoCallInFlight =>
        \A s \in Sessions :
            /\ tracker[s].user_id = session[s].user_id
            /\ tracker[s].user_phone = session[s].user_phone
            /\ tracker[s].user_name = session[s].user_name

\* C35: cancel_appointment and modify_appointment report success and record the
\* cancellation or modification in the tracker only if the store write was applied;
\* when the update fails in the store the tracker's lists and the appointment are
\* unchanged and the call ends with the apology.
C35_SuccessOnlyIfWritten ==
    [][\A t \in Tasks :
        (frame[t].pc \in {"can_update", "mod_update"} /\ frame'[t].pc = "done") =>
            LET f == frame[t]
                s == f.sess
                written_appts ==
                    IF f.pc = "can_update"
                    THEN UpdateAppointmentStatus("ok", f.target, "cancelled")
                    ELSE UpdateAppointment("ok", f.target, f.arg)
            IN  \/ /\ frame'[t].outcome \in {"cancelled", "modified"}
                   /\ appts' = written_appts
                \/ /\ frame'[t].outcome = "error"
                   /\ appts' = appts
                   /\ tracker'[s].appointments_cancelled = tracker[s].appointments_cancelled
                   /\ tracker'[s].appointments_modified = tracker[s].appointments_modified]_vars

\* C36: a failed read of the booked slots is never treated as an empty set of booked
\* slots: a book_appointment call, or a modify_appointment call with a new date and
\* time, whose slot is occupied when it reads the booked slots does not go on to its
\* store write, whatever the read's outcome.
C36_FailedReadIsNotFree ==
    [][\A t \in Tasks :
        /\ (frame[t].pc = "book_slots" /\ Occupied(frame[t].nd, frame[t].nt)) =>
                frame'[t].pc # "book_create"
        /\ (frame[t].pc = "mod_slots" /\ Occupied(frame[t].arg.date, frame[t].arg.time)) =>
                frame'[t].pc # "mod_update"]_vars

\* C37: each appointment id appears at most once in a session tracker's cancelled list,
\* under any sequence or overlap of cancel_appointment calls on the same appointment.
C37_CancelledListedOnce ==
    \A s \in Sessions :
        LET cancelled == tracker[s].appointments_cancelled
        IN  \A i, j \in DOMAIN cancelled : (cancelled[i] = cancelled[j]) => (i = j)

\* C38: summary records of different sessions carry different conversation ids, so the
\* unique index on conversation id never rejects the first end_conversation of a
\* session: the first save of each session puts its summary record in the store.
C38_FirstSummaryStored ==
    [][\A t \in Tasks :
        (frame[t].pc = "end_save" /\ written[frame[t].sess] = 0) =>
            /\ written'[frame[t].sess] = 1
            /\ Len(summaries') = Len(summaries) + 1]_vars

\* C39: modify_appointment given a new date or a new time never reports the
\* appointment as updated while leaving the requested date or time unapplied: the step
\* that answers "Updated" leaves the record with every date and time the call supplied.
C39_SuppliedFieldsApplied ==
    [][\A t \in Tasks :
        (/\ frame[t].pc = "mod_update"
         /\ frame'[t].pc = "done"
         /\ frame'[t].outcome = "modified") =>
            /\ Truthy(frame[t].arg.date) => appts'[frame[t].target].date = frame[t].arg.date
            /\ Truthy(frame[t].arg.time) => appts'[frame[t].target].time = frame[t].arg.time]_vars

\* C40: whenever a session's pending-appointment snapshot is set, it holds the id, date,
\* time and purpose of an appointment record that exists in the store and is owned by
\* the session's user.
C40_PendingIsStoredAppointment ==
    \A s \in Sessions :
        LET pending == session[s].pending_appointment
        IN  pending # <<>> =>
                /\ pending.id \in DOMAIN appts
                /\ appts[pending.id].date = pending.date
                /\ appts[pending.id].time = pending.time
                /\ appts[pending.id].purpose = pending.purpose
                /\ appts[pending.id].user_id = session[s].user_id

====
